---- MODULE Spec2Model ----
(***************************************************************************)
(* Model of genji's documentHashSet (the hash-set filter behind the        *)
(* DISTINCT / set operators), of the Example scenario of example_test.go   *)
(* and of the root command of cmd/genji.                                   *)
(***************************************************************************)
EXTENDS Integers, Sequences, FiniteSets, TLC

(***************************************************************************)
(* Bounds and input universes.                                             *)
(***************************************************************************)
\* number of Filter calls made on one documentHashSet
MaxCalls == 3

\* field names; 1 stands for "a", 2 for "b": the order of the numbers is the
\* lexicographic order of the names
FieldNames == {1, 2}

\* the integer values a field may hold
Ints == {1, 2}

\* type tag the value encoder writes before an integer
IntegerTag == 3

\* multiplier and modulus of the polynomial Hash64 implementation
PolyBase == 31

PolyModulus == 1048576

\* the Hash64 implementations a caller may hand to newDocumentHashSet
HashImpls == {"sum", "poly"}

(***************************************************************************)
(* State.                                                                  *)
(***************************************************************************)
VARIABLES
    hashImpl,   \* documentHashSet.hash: which Hash64 implementation it is
    hash,       \* documentHashSet.hash: bytes written since the last Reset
    set,        \* documentHashSet.set: the recorded keys
    last,       \* the document and fault of the most recent Filter call
    log,        \* what each Filter call so far was offered and returned
    tables,     \* the database of Example: table name -> (primary key -> row)
    rows,       \* the outcome of the last statement run on the database
    flags,      \* the command line of the shell: --bolt, --badger, arguments
    shell       \* what the root command did with it

hsVars == <<hashImpl, hash, set, last, log>>

dbVars == <<tables, rows>>

cliVars == <<flags, shell>>

vars == <<hashImpl, hash, set, last, log, tables, rows, flags, shell>>

(***************************************************************************)
(* Documents: a sequence of (field, value) pairs in insertion order, field *)
(* names unique.                                                           *)
(***************************************************************************)
Pair(f, v) == [field |-> f, value |-> v]

Documents ==
    {<<>>}
    \cup {<<Pair(f, v)>> : f \in FieldNames, v \in Ints}
    \cup {<<Pair(f, v), Pair(g, w)>> :
            <<f, g>> \in {p \in FieldNames \X FieldNames : p[1] # p[2]},
            <<v, w>> \in Ints \X Ints}

\* the faults a call of generateKey may meet: none, document.Fields failing,
\* GetByField failing on a field, the value encoder failing on a field's value
NoFault == [kind |-> "none", field |-> 0]

Faults(d) ==
    {NoFault, [kind |-> "fields", field |-> 0]}
    \cup {[kind |-> k, field |-> d[i].field] :
            k \in {"get", "encode"}, i \in 1..Len(d)}

(***************************************************************************)
(* The document package, as generateKey uses it.                           *)
(***************************************************************************)
\* the field names in insertion order
FieldsInOrder(d) == [i \in 1..Len(d) |-> d[i].field]

\* document.Fields: the field names at the root of the document, sorted
Fields(d) == SortSeq(FieldsInOrder(d), LAMBDA a, b : a < b)

\* Document.GetByField
GetByField(d, field) ==
    LET i == CHOOSE j \in 1..Len(d) : d[j].field = field IN d[i].value

\* ValueEncoder.Encode: the bytes written for one value (type tag, payload)
Encode(value) == <<IntegerTag, value>>

(***************************************************************************)
(* hash.Hash64: Write appends to the bytes seen, Reset forgets them, Sum64 *)
(* is a function of the bytes seen since the last Reset.  Two              *)
(* implementations are drawn: a byte sum, under which different byte       *)
(* sequences collide, and a polynomial hash, under which the documents     *)
(* drawn here do not.                                                      *)
(***************************************************************************)
Write(h, bytes) == h \o bytes

Reset(h) == <<>>

RECURSIVE SumBytes(_)
SumBytes(h) == IF h = <<>> THEN 0 ELSE Head(h) + SumBytes(Tail(h))

RECURSIVE PolyBytes(_, _)
PolyBytes(acc, h) ==
    IF h = <<>> THEN acc
    ELSE PolyBytes((acc * PolyBase + Head(h)) % PolyModulus, Tail(h))

Sum64(impl, h) == IF impl = "sum" THEN SumBytes(h) ELSE PolyBytes(0, h)

(***************************************************************************)
(* documentHashSet.generateKey                                             *)
(***************************************************************************)
\* the loop over the fields: the accumulator and the error it ends with
RECURSIVE encodeFields(_, _, _, _)
encodeFields(h, d, fields, fault) ==
    IF fields = <<>> THEN [hash |-> h, err |-> "nil"]
    ELSE LET field == Head(fields) IN
         IF fault.kind = "get" /\ fault.field = field
         THEN [hash |-> h, err |-> "ErrGet"]
         ELSE IF fault.kind = "encode" /\ fault.field = field
         THEN [hash |-> h, err |-> "ErrEncode"]
         ELSE encodeFields(Write(h, Encode(GetByField(d, field))), d,
                           Tail(fields), fault)

\* a generateKey whose Reset runs on the success path only
generateKeyResetOnSuccess(impl, h, d, fault) ==
    IF fault.kind = "fields"
    THEN [key |-> 0, err |-> "ErrFields", fed |-> h, hash |-> h]
    ELSE LET r == encodeFields(h, d, Fields(d), fault) IN
         IF r.err # "nil"
         THEN [key |-> 0, err |-> r.err, fed |-> r.hash, hash |-> r.hash]
         ELSE [key |-> Sum64(impl, r.hash), err |-> "nil", fed |-> r.hash,
               hash |-> Reset(r.hash)]

\* a generateKey that walks the fields in insertion order
generateKeyInsertionOrder(impl, h, d, fault) ==
    IF fault.kind = "fields"
    THEN [key |-> 0, err |-> "ErrFields", fed |-> h, hash |-> Reset(h)]
    ELSE LET r == encodeFields(h, d, FieldsInOrder(d), fault) IN
         IF r.err # "nil"
         THEN [key |-> 0, err |-> r.err, fed |-> r.hash, hash |-> Reset(r.hash)]
         ELSE [key |-> Sum64(impl, r.hash), err |-> "nil", fed |-> r.hash,
               hash |-> Reset(r.hash)]

\* key, error, the bytes the accumulator held when the function returned
\* (fed) and the accumulator after the deferred Reset (hash)
generateKey(impl, h, d, fault) ==
    IF fault.kind = "fields"
    THEN [key |-> 0, err |-> "ErrFields", fed |-> h, hash |-> Reset(h)]
    ELSE LET r == encodeFields(h, d, Fields(d), fault) IN
         IF r.err # "nil"
         THEN [key |-> 0, err |-> r.err, fed |-> r.hash, hash |-> Reset(r.hash)]
         ELSE [key |-> Sum64(impl, r.hash), err |-> "nil", fed |-> r.hash,
               hash |-> Reset(r.hash)]

(***************************************************************************)
(* documentHashSet.Filter                                                  *)
(***************************************************************************)
\* a Filter that ignores the error of generateKey and goes on with the key
FilterSwallowsError(impl, h, s, d, fault) ==
    LET g == generateKey(impl, h, d, fault) IN
    IF g.key \in s
    THEN [ok |-> FALSE, err |-> "nil", set |-> s, hash |-> g.hash,
          key |-> g.key, fed |-> g.fed]
    ELSE [ok |-> TRUE, err |-> "nil", set |-> s \cup {g.key}, hash |-> g.hash,
          key |-> g.key, fed |-> g.fed]

\* a Filter that never records the key
FilterNoRecord(impl, h, s, d, fault) ==
    LET g == generateKey(impl, h, d, fault) IN
    IF g.err # "nil"
    THEN [ok |-> FALSE, err |-> g.err, set |-> s, hash |-> g.hash,
          key |-> g.key, fed |-> g.fed]
    ELSE IF g.key \in s
    THEN [ok |-> FALSE, err |-> "nil", set |-> s, hash |-> g.hash,
          key |-> g.key, fed |-> g.fed]
    ELSE [ok |-> TRUE, err |-> "nil", set |-> s, hash |-> g.hash,
          key |-> g.key, fed |-> g.fed]

\* what the call returns (ok, err), the set and the accumulator it leaves,
\* and the key and bytes generateKey produced on the way
Filter(impl, h, s, d, fault) ==
    LET g == generateKey(impl, h, d, fault) IN
    IF g.err # "nil"
    THEN [ok |-> FALSE, err |-> g.err, set |-> s, hash |-> g.hash,
          key |-> g.key, fed |-> g.fed]
    ELSE IF g.key \in s
    THEN [ok |-> FALSE, err |-> "nil", set |-> s, hash |-> g.hash,
          key |-> g.key, fed |-> g.fed]
    ELSE [ok |-> TRUE, err |-> "nil", set |-> s \cup {g.key}, hash |-> g.hash,
          key |-> g.key, fed |-> g.fed]

\* the document with its fields in name order: its field/value pairs
\* whatever the insertion order
Canon(d) == SortSeq(d, LAMBDA p, q : p.field < q.field)

\* the log entry of one call: the document offered (left out for a call
\* that failed), what Filter returned, and the key and bytes of generateKey
Entry(d, r) ==
    [doc |-> IF r.err # "nil" THEN <<>> ELSE d,
     ok |-> r.ok, err |-> r.err, key |-> r.key, fed |-> r.fed]

(***************************************************************************)
(* newDocumentHashSet, then any sequence of Filter calls.                  *)
(***************************************************************************)
InitHashSet ==
    /\ hashImpl \in HashImpls
    /\ hash = <<>>
    /\ set = {}
    /\ last = [doc |-> <<>>, fault |-> NoFault]
    /\ log = <<>>

\* no database opened, no command line given
IdleDB ==
    /\ tables = <<>>
    /\ rows = [stmt |-> "none"]

IdleCli ==
    /\ flags = [bolt |-> FALSE, badger |-> FALSE, args |-> <<>>]
    /\ shell = [state |-> "idle"]

Init == InitHashSet /\ IdleDB /\ IdleCli

FilterCall ==
    /\ Len(log) < MaxCalls
    /\ \E d \in Documents : \E fault \in Faults(d) :
         LET r == Filter(hashImpl, hash, set, d, fault) IN
         /\ hash' = r.hash
         /\ set' = r.set
         /\ last' = [doc |-> d, fault |-> fault]
         /\ log' = Append(log, Entry(d, r))
    /\ UNCHANGED <<hashImpl, dbVars, cliVars>>

Next == FilterCall

Spec == Init /\ [][Next]_vars

(***************************************************************************)
(* Vocabulary of the properties.                                           *)
(***************************************************************************)
Calls == 1..Len(log)

\* call i generated a key (no error)
Keyed(i) == log[i].err = "nil"

\* calls i and j were offered the same field/value pairs
SameDocument(i, j) == Canon(log[i].doc) = Canon(log[j].doc)

\* an earlier keyed call was offered the same field/value pairs as call i
OfferedBefore(i) == \E j \in 1..(i - 1) : Keyed(j) /\ SameDocument(i, j)

\* an earlier keyed call produced the same key as call i
KeyUsedBefore(i) == \E j \in 1..(i - 1) : Keyed(j) /\ log[j].key = log[i].key

\* the bytes of a document's values in field-name order, from the document
\* alone
RECURSIVE ValueBytes(_)
ValueBytes(d) ==
    IF d = <<>> THEN <<>>
    ELSE <<IntegerTag, Head(d).value>> \o ValueBytes(Tail(d))

FreshKey(d) == Sum64(hashImpl, ValueBytes(Canon(d)))

\* the values of a document in field-name order, and its field names
ValuesOf(d) == [i \in 1..Len(d) |-> Canon(d)[i].value]

NamesOf(d) == {d[i].field : i \in 1..Len(d)}

\* the error a fault stands for
ErrorOf(fault) ==
    CASE fault.kind = "fields" -> "ErrFields"
      [] fault.kind = "get" -> "ErrGet"
      [] fault.kind = "encode" -> "ErrEncode"
      [] OTHER -> "nil"

(***************************************************************************)
(* C1.  As claimed: among the calls that generate a key, Filter returns    *)
(* true for the first occurrence of a document and false for every later   *)
(* occurrence of the same field/value pairs.                               *)
(***************************************************************************)
C1_FirstPassesLaterRejected ==
    \A i \in Calls : Keyed(i) => (log[i].ok <=> ~OfferedBefore(i))

\* C1, amended: among the calls that generate a key, every later occurrence
\* of the same field/value pairs is rejected, and a first occurrence passes
\* exactly when no earlier call produced its key; so at most one copy of a
\* document survives.
C1_DuplicateRejected ==
    /\ \A i \in Calls : Keyed(i) /\ OfferedBefore(i) => ~log[i].ok
    /\ \A i \in Calls :
         Keyed(i) /\ ~OfferedBefore(i) => (log[i].ok <=> ~KeyUsedBefore(i))
    /\ \A i, j \in Calls :
         Keyed(i) /\ Keyed(j) /\ SameDocument(i, j) /\ log[i].ok /\ log[j].ok
           => i = j

\* a document passed, and was rejected when it was offered again
C1_Witness ==
    \E i, j \in Calls :
        /\ i < j /\ Keyed(i) /\ Keyed(j) /\ SameDocument(i, j)
        /\ log[i].doc # <<>>
        /\ log[i].ok /\ ~log[j].ok

(***************************************************************************)
(* C2.  A Filter call returns true iff it generated a key that was not in  *)
(* the set when it was called, and then the key is in the set afterwards;  *)
(* of two documents offered to a new set whose keys differ, both pass.     *)
(***************************************************************************)
C2_Step ==
    Len(log') = Len(log) + 1 =>
        LET e == log'[Len(log')] IN
        /\ e.ok <=> (e.err = "nil" /\ e.key \notin set)
        /\ e.ok => e.key \in set'
        /\ e.err = "nil" => e.key \in set'
        /\ (Len(log') = 2 /\ log'[1].err = "nil" /\ e.err = "nil"
              /\ log'[1].key # e.key) => (log'[1].ok /\ e.ok)

C2_TrueIffKeyNew == [][C2_Step]_vars

\* two documents with different values and different keys both passed
C2_Witness ==
    /\ Len(log) = 2 /\ Keyed(1) /\ Keyed(2)
    /\ ValuesOf(log[1].doc) # ValuesOf(log[2].doc)
    /\ log[1].key # log[2].key
    /\ log[1].ok /\ log[2].ok
    /\ set = {log[1].key, log[2].key}

(***************************************************************************)
(* C3.  Documents with the same field/value pairs get the same key         *)
(* whatever the insertion order of their fields, so the later one is       *)
(* rejected.                                                               *)
(***************************************************************************)
C3_KeyIgnoresFieldOrder ==
    \A i, j \in Calls :
        Keyed(i) /\ Keyed(j) /\ SameDocument(i, j) =>
            /\ log[i].key = log[j].key
            /\ i < j => ~log[j].ok

\* the same pairs were offered in two different field orders; the first
\* passed and the second was rejected
C3_Witness ==
    \E i, j \in Calls :
        /\ i < j /\ Keyed(i) /\ Keyed(j) /\ SameDocument(i, j)
        /\ log[i].doc # log[j].doc
        /\ log[i].ok /\ ~log[j].ok

(***************************************************************************)
(* C4.  As claimed: the field names are fed to the accumulator with the    *)
(* values, so two documents holding the same values under different field  *)
(* names feed different bytes and, when their keys differ from every       *)
(* earlier key, both pass.                                                 *)
(***************************************************************************)
C4_FieldNamesHashed ==
    \A i, j \in Calls :
        ( /\ i < j /\ Keyed(i) /\ Keyed(j)
          /\ ValuesOf(log[i].doc) = ValuesOf(log[j].doc)
          /\ NamesOf(log[i].doc) # NamesOf(log[j].doc) )
        => log[i].fed # log[j].fed

(***************************************************************************)
(* C5.  The accumulator is empty after every call, whichever way           *)
(* generateKey returned, and every key generated is the key of the         *)
(* document alone, whatever was processed before it.                       *)
(***************************************************************************)
C5_AccumulatorReset ==
    /\ hash = <<>>
    /\ \A i \in Calls :
         Keyed(i) => /\ log[i].fed = ValueBytes(Canon(log[i].doc))
                     /\ log[i].key = FreshKey(log[i].doc)

\* a call failed after bytes had been written, and a later call generated
\* a key for a document with fields
C5_Witness ==
    \E i, j \in Calls :
        /\ i < j
        /\ log[i].err \in {"ErrGet", "ErrEncode"} /\ log[i].fed # <<>>
        /\ Keyed(j) /\ log[j].doc # <<>>

(***************************************************************************)
(* C6.  The documents for which Filter returned true are the first         *)
(* occurrences by key of the documents offered, in the order offered.      *)
(***************************************************************************)
Passed(e) == e.ok

DocsOf(entries) == [i \in 1..Len(entries) |-> entries[i].doc]

Survivors == DocsOf(SelectSeq(log, Passed))

RECURSIVE FirstOccurrences(_, _)
FirstOccurrences(entries, seen) ==
    IF entries = <<>> THEN <<>>
    ELSE LET e == Head(entries) IN
         IF e.err # "nil" \/ e.key \in seen
         THEN FirstOccurrences(Tail(entries), seen)
         ELSE <<e.doc>> \o FirstOccurrences(Tail(entries), seen \cup {e.key})

C6_SurvivorsAreFirstOccurrences == Survivors = FirstOccurrences(log, {})

\* three calls: a document, another one with another key, the first one
\* again; the survivors are the first two in that order
C6_Witness ==
    /\ Len(log) = 3 /\ Keyed(1) /\ Keyed(2) /\ Keyed(3)
    /\ log[1].key # log[2].key /\ log[3].key = log[1].key
    /\ Survivors = <<log[1].doc, log[2].doc>>

(***************************************************************************)
(* C8.  Duplicates are decided by key alone: a document whose key an       *)
(* earlier, different document produced is rejected, with no error.        *)
(***************************************************************************)
C8_CollisionRejected ==
    \A i, j \in Calls :
        ( /\ i < j /\ Keyed(i) /\ Keyed(j)
          /\ ~SameDocument(i, j)
          /\ log[i].key = log[j].key )
        => (~log[j].ok /\ log[j].err = "nil")

\* two documents fed different bytes and got the same key; the first passed
\* and the second was rejected
C8_Witness ==
    \E i, j \in Calls :
        /\ i < j /\ Keyed(i) /\ Keyed(j)
        /\ log[i].fed # log[j].fed
        /\ log[i].key = log[j].key
        /\ log[i].ok /\ ~log[j].ok

(***************************************************************************)
(* C9.  A call whose key generation fails returns false with the error     *)
(* that generateKey met, and leaves the set and the accumulator as they    *)
(* were, so the calls after it see the state the calls before it left.     *)
(***************************************************************************)
C9_Step ==
    (Len(log') = Len(log) + 1 /\ last'.fault.kind # "none") =>
        LET e == log'[Len(log')] IN
        /\ ~e.ok
        /\ e.err = ErrorOf(last'.fault)
        /\ set' = set
        /\ hash' = hash

C9_ErrorReturnedSetKept == [][C9_Step]_vars

\* a document passed, a call failed, and the document was rejected when
\* offered again
C9_Witness ==
    /\ Len(log) = 3
    /\ Keyed(1) /\ log[1].ok
    /\ log[2].err # "nil" /\ ~log[2].ok
    /\ Keyed(3) /\ SameDocument(1, 3) /\ ~log[3].ok
    /\ set = {log[1].key}

(***************************************************************************)
(* cmd/genji: the root command.                                            *)
(***************************************************************************)
\* number of positional arguments on the command line
MaxArgs == 2

Paths == {"", "my.db", "other.db"}

ArgLists == UNION {[1..n -> Paths] : n \in 0..MaxArgs}

CommandLines == [bolt : BOOLEAN, badger : BOOLEAN, args : ArgLists]

\* cli.Args.First: the first argument, or the empty string
First(a) == IF a = <<>> THEN "" ELSE a[1]

\* cli.NewExitError: the action returns without running the shell
NewExitError(message, exitCode) ==
    [state |-> "exit", message |-> message, code |-> exitCode,
     engine |-> "", dbpath |-> ""]

\* shell.Run with the options the action built
Run(engine, dbpath) ==
    [state |-> "shell", message |-> "", code |-> 0,
     engine |-> engine, dbpath |-> dbpath]

\* a root command that lets a path or --bolt override --badger
rootActionBoltLast(useBolt, useBadger, a) ==
    IF useBolt /\ useBadger
    THEN NewExitError("cannot use bolt and badger options at the same time", 2)
    ELSE LET dbpath == First(a) IN
         IF (useBolt \/ useBadger) /\ dbpath = ""
         THEN NewExitError("db path required when using bolt or badger", 2)
         ELSE LET engine1 == IF useBadger THEN "badger" ELSE "memory"
                  engine2 == IF useBolt \/ dbpath # "" THEN "bolt" ELSE engine1
              IN  Run(engine2, dbpath)

\* app.Action
rootAction(useBolt, useBadger, a) ==
    IF useBolt /\ useBadger
    THEN NewExitError("cannot use bolt and badger options at the same time", 2)
    ELSE LET dbpath == First(a) IN
         IF (useBolt \/ useBadger) /\ dbpath = ""
         THEN NewExitError("db path required when using bolt or badger", 2)
         ELSE LET engine1 == IF useBolt \/ dbpath # "" THEN "bolt" ELSE "memory"
                  engine2 == IF useBadger THEN "badger" ELSE engine1
              IN  Run(engine2, dbpath)

\* a documentHashSet nobody uses
IdleHashSet ==
    /\ hashImpl = "sum"
    /\ hash = <<>>
    /\ set = {}
    /\ last = [doc |-> <<>>, fault |-> NoFault]
    /\ log = <<>>

InitCli ==
    /\ flags \in CommandLines
    /\ shell = [state |-> "idle"]
    /\ IdleHashSet
    /\ IdleDB

RunRoot ==
    /\ shell.state = "idle"
    /\ shell' = rootAction(flags.bolt, flags.badger, flags.args)
    /\ UNCHANGED <<flags, hsVars, dbVars>>

NextCli == RunRoot

SpecCli == InitCli /\ [][NextCli]_vars

(***************************************************************************)
(* C10.  The root command fails with exit code 2, without starting the     *)
(* shell, when both --bolt and --badger are given or when one of them is   *)
(* given with an empty path; otherwise it runs the shell on the path with  *)
(* engine badger if --badger, else bolt if --bolt or a non-empty path,     *)
(* else memory.                                                            *)
(***************************************************************************)
C10_EngineSelection ==
    shell.state # "idle" =>
        LET path == First(flags.args) IN
        IF flags.bolt /\ flags.badger
        THEN shell.state = "exit" /\ shell.code = 2
        ELSE IF (flags.bolt \/ flags.badger) /\ path = ""
        THEN shell.state = "exit" /\ shell.code = 2
        ELSE /\ shell.state = "shell"
             /\ shell.dbpath = path
             /\ shell.engine \in {"badger", "bolt", "memory"}
             /\ shell.engine = "badger" <=> flags.badger
             /\ shell.engine = "bolt" <=> (~flags.badger /\ (flags.bolt \/ path # ""))
             /\ shell.engine = "memory" <=>
                    (~flags.bolt /\ ~flags.badger /\ path = "")

\* --badger with a path ran the shell on the badger engine
C10_Witness ==
    /\ flags.badger /\ ~flags.bolt /\ First(flags.args) = "my.db"
    /\ shell.state = "shell" /\ shell.engine = "badger"

(***************************************************************************)
(* The database of Example: one engine, tables of rows addressed by        *)
(* primary key, and the statements Example runs on it.                     *)
(***************************************************************************)
TableNames == {"user"}

IDs == {1, 2, 10}

Names == {"foo", "bar", "baz"}

Ages == {0, 15, 100}

\* type User: ID is the primary key
Users == [ID : IDs, Name : Names, Age : Ages]

\* the rows Example inserts: one by VALUES, two by RECORDS (the Age of the
\* last one is left at its zero value)
ExampleValues == <<[ID |-> 10, Name |-> "foo", Age |-> 15]>>

ExampleRecords ==
    <<[ID |-> 1, Name |-> "bar", Age |-> 100],
      [ID |-> 2, Name |-> "baz", Age |-> 0]>>

\* the query of Example and the output it expects
ExampleQuery == [table |-> "user", field |-> "Name", param |-> "bar"]

ExampleOutput == << <<1, "bar", 100>> >>

\* the parameters a query may compare a field with
Params(field) ==
    CASE field = "ID" -> IDs
      [] field = "Name" -> Names
      [] field = "Age" -> Ages

\* the lists of rows one INSERT statement may carry
InsertLists == {<<u>> : u \in Users} \cup {<<u, v>> : u, v \in Users}

\* Document Store insert of a list of rows in one transaction: every row
\* is put under its primary key, and a key already present fails the
\* statement, which then leaves the table as it was
RECURSIVE InsertAll(_, _)
InsertAll(store, list) ==
    IF list = <<>> THEN [store |-> store, err |-> "nil"]
    ELSE LET u == Head(list) IN
         IF u.ID \in DOMAIN store
         THEN [store |-> store, err |-> "ErrDuplicate"]
         ELSE InsertAll([k \in DOMAIN store \cup {u.ID} |->
                            IF k = u.ID THEN u ELSE store[k]],
                        Tail(list))

\* Scan: the rows of a store in primary-key order
RECURSIVE Scan(_, _)
Scan(store, keys) ==
    IF keys = {} THEN <<>>
    ELSE LET k == CHOOSE x \in keys : \A y \in keys : x <= y IN
         <<store[k]>> \o Scan(store, keys \ {k})

\* a filter operator that forwards the documents the predicate rejects
WhereNot(docs, field, param) ==
    SelectSeq(docs, LAMBDA d : d[field] # param)

\* Filter operator: forwards the documents whose field equals the parameter
Where(docs, field, param) ==
    SelectSeq(docs, LAMBDA d : d[field] = param)

\* Projection of all fields
ProjectAll(docs) ==
    [i \in 1..Len(docs) |-> [f \in DOMAIN docs[i] |-> docs[i][f]]]

\* rows.Next / rows.Scan / fmt.Println over the result: one line per
\* document, the fields of User in their declared order
Printed(docs) ==
    [i \in 1..Len(docs) |-> <<docs[i].ID, docs[i].Name, docs[i].Age>>]

Outcome(stmt, field, param, docs, err) ==
    [stmt |-> stmt, field |-> field, param |-> param, docs |-> docs,
     err |-> err]

InitDB ==
    /\ tables = <<>>
    /\ rows = [stmt |-> "none"]
    /\ IdleHashSet
    /\ IdleCli

\* CREATE TABLE name IF NOT EXISTS
CreateTable ==
    \E t \in TableNames :
        /\ tables' = IF t \in DOMAIN tables THEN tables
                     ELSE [n \in DOMAIN tables \cup {t} |->
                              IF n = t THEN <<>> ELSE tables[n]]
        /\ rows' = Outcome("create", "", "", <<>>, "nil")
        /\ UNCHANGED <<hsVars, cliVars>>

\* INSERT INTO name VALUES ... / RECORDS ...
Insert ==
    \E t \in TableNames : \E list \in InsertLists :
        /\ IF t \notin DOMAIN tables
           THEN /\ tables' = tables
                /\ rows' = Outcome("insert", "", "", <<>>, "ErrTableNotFound")
           ELSE LET r == InsertAll(tables[t], list) IN
                /\ tables' = IF r.err = "nil"
                             THEN [tables EXCEPT ![t] = r.store]
                             ELSE tables
                /\ rows' = Outcome("insert", "", "", <<>>, r.err)
        /\ UNCHANGED <<hsVars, cliVars>>

\* SELECT * FROM name WHERE field = ?, iterated to the end of the stream
Query ==
    \E t \in TableNames : \E field \in {"ID", "Name", "Age"} :
      \E param \in Params(field) :
        /\ rows' = IF t \notin DOMAIN tables
                   THEN Outcome("query", field, param, <<>>, "ErrTableNotFound")
                   ELSE Outcome("query", field, param,
                                ProjectAll(Where(Scan(tables[t], DOMAIN tables[t]),
                                                 field, param)),
                                "nil")
        /\ UNCHANGED <<tables, hsVars, cliVars>>

NextDB == CreateTable \/ Insert \/ Query

SpecDB == InitDB /\ [][NextDB]_vars

(***************************************************************************)
(* C7.  On the table Example builds, the query of Example yields exactly   *)
(* the one document Example prints and ends with no error; on any table a  *)
(* query with an equality filter yields each stored row whose field equals *)
(* the parameter once, with all its fields, and no other document.         *)
(***************************************************************************)
ExampleTable == InsertAll(InsertAll(<<>>, ExampleValues).store, ExampleRecords).store

C7_EqualityFilter ==
    (rows.stmt = "query" /\ "user" \in DOMAIN tables) =>
        LET store == tables["user"] IN
        /\ rows.err = "nil"
        /\ {rows.docs[i] : i \in 1..Len(rows.docs)}
             = {store[k] : k \in {x \in DOMAIN store : store[x][rows.field] = rows.param}}
        /\ \A i, j \in 1..Len(rows.docs) :
             rows.docs[i].ID = rows.docs[j].ID => i = j
        /\ (store = ExampleTable /\ rows.field = ExampleQuery.field
              /\ rows.param = ExampleQuery.param)
             => Printed(rows.docs) = ExampleOutput

\* the query of Example was run on the table of Example and printed its line
C7_Witness ==
    /\ "user" \in DOMAIN tables
    /\ tables["user"] = ExampleTable
    /\ DOMAIN tables["user"] = {1, 2, 10}
    /\ rows.stmt = "query" /\ rows.err = "nil"
    /\ rows.field = "Name"
    /\ rows.param = "bar"
    /\ rows.docs = <<[ID |-> 1, Name |-> "bar", Age |-> 100]>>
====
